---- MODULE Spec2Model ----
(***************************************************************************)
(* A model of the Scheme interpreter of src/scheme.py: the environment     *)
(* frames, the Eval/Apply recurrence, the special forms, the reader and    *)
(* the read-eval-print loop.                                               *)
(*                                                                         *)
(* Scheme values are tagged records; every tag has its own field names so  *)
(* that two values of different kinds are simply unequal.                  *)
(*   number  [t |-> "num", n]      symbol  [t |-> "sym", s]                *)
(*   boolean [t |-> "bool", b]     NULL    [t |-> "nil"]                   *)
(*   Pair    [t |-> "pair", first, second]                                 *)
(*   None    [t |-> "none"]        (Python's None, the unspecified value)  *)
(*   LambdaProcedure [t |-> "lambda", formals, body, env]                  *)
(*   PrimitiveProcedure [t |-> "prim", fn, use_env]                        *)
(*   a Python list [t |-> "pylist", items]  (only built by do_let_form)    *)
(*   EOF     [t |-> "eof"]         (the end-of-file marker of the reader)  *)
(* A token is a value: a delimiter is the string that a symbol is.         *)
(* A Frame is a record [inner, parent]: inner is a function from keys      *)
(* (values) to values, parent is the index of the enclosing frame in the   *)
(* heap, 0 for None.  heap[1] is the global frame.                         *)
(***************************************************************************)
EXTENDS Integers, Sequences, FiniteSets

\* ------------------------------------------------------------------ bounds
\* the most frames that stay reachable from the global frame
MaxFrames == 3
\* the deepest nesting of scheme_eval activations before Python gives up
MaxDepth == 12
\* the longest argument list handed to Frame.make_call_frame directly
MaxArgs == 4
\* the most sub-expressions of a begin form
MaxStatements == 3
\* the most clauses of a cond form
MaxClauses == 2
\* the most operands of an and / or form
MaxOperands == 2
\* the most bindings of a let / let* form
MaxBindings == 2
\* the most tokens of an input handed to the read-eval-print loop
MaxTokens == 5
\* the most formals of a lambda form
MaxFormals == 3
\* the most iterations of the tail-recursive loop
MaxIterations == 3

\* ------------------------------------------------------------------ values
Num(n) == [t |-> "num", n |-> n]

Sym(s) == [t |-> "sym", s |-> s]

Bool(b) == [t |-> "bool", b |-> b]

NULL == [t |-> "nil"]

None == [t |-> "none"]

Pair(first, second) == [t |-> "pair", first |-> first, second |-> second]

LambdaProcedure(formals, body, env) ==
    [t |-> "lambda", formals |-> formals, body |-> body, env |-> env]

PrimitiveProcedure(fn, use_env) == [t |-> "prim", fn |-> fn, use_env |-> use_env]

PyList(items) == [t |-> "pylist", items |-> items]

IsPair(x) == x.t = "pair"

\* the proper Scheme list of the elements of a sequence
RECURSIVE List(_)
List(xs) == IF xs = <<>> THEN NULL ELSE Pair(Head(xs), List(Tail(xs)))

\* the list (x1 ... xn . tail)
RECURSIVE DottedList(_, _)
DottedList(xs, tail) ==
    IF xs = <<>> THEN tail ELSE Pair(Head(xs), DottedList(Tail(xs), tail))

\* the characters of a symbol's name: iterating a Python str yields them
Chars(s) ==
    CASE s = "ab" -> <<"a", "b">>
      [] s = "rest" -> <<"r", "e", "s", "t">>
      [] OTHER -> <<s>>

\* ----------------------------------------------------- scheme_primitives.py
scheme_symbolp(x) == x.t = "sym"

scheme_numberp(x) == x.t = "num" \/ x.t = "bool"

scheme_booleanp(x) == x.t = "bool"

scheme_nullp(x) == x = NULL

scheme_atomp(x) ==
    scheme_booleanp(x) \/ scheme_numberp(x) \/ scheme_symbolp(x) \/ scheme_nullp(x)

RECURSIVE scheme_listp(_)
scheme_listp(x) ==
    IF x = NULL THEN TRUE
    ELSE IF ~IsPair(x) THEN FALSE
    ELSE scheme_listp(x.second)

\* Pair.__len__ and NULL.__len__; -1 stands for the SchemeError
\* "length attempted on improper list"
RECURSIVE Pair_len(_)
Pair_len(x) ==
    IF x = NULL THEN 0
    ELSE IF ~IsPair(x.second) THEN (IF x.second = NULL THEN 1 ELSE -1)
    ELSE LET n == Pair_len(x.second) IN IF n < 0 THEN -1 ELSE n + 1

\* Pair.__iter__ / NULL.__iter__ on a well-formed list, as a sequence
RECURSIVE Pair_iter(_)
Pair_iter(x) == IF x = NULL THEN <<>> ELSE <<x.first>> \o Pair_iter(x.second)

\* Pair.__getitem__ / NULL.__getitem__ for k >= 0; [ok, v]
RECURSIVE Pair_getitem(_, _)
Pair_getitem(x, k) ==
    IF x = NULL THEN [ok |-> FALSE, v |-> "list index out of bounds"]
    ELSE IF k = 0 THEN [ok |-> TRUE, v |-> x.first]
    ELSE IF x.second = NULL THEN [ok |-> FALSE, v |-> "list index out of bounds"]
    ELSE IF ~IsPair(x.second) THEN [ok |-> FALSE, v |-> "ill-formed list"]
    ELSE Pair_getitem(x.second, k - 1)

\* scheme_true is what the documentation calls truth; the handlers of
\* scheme.py do not call it
scheme_true(val) == val # Bool(FALSE)

\* Python's bool(x), used by "if test:"; "raise" stands for the SchemeError
\* that Pair.__len__ raises on an improper list
PyTruth(x) ==
    CASE x.t = "bool" -> IF x.b THEN "true" ELSE "false"
      [] x.t = "num" -> IF x.n = 0 THEN "false" ELSE "true"
      [] x.t = "none" -> "false"
      [] x.t = "nil" -> "false"
      [] x.t = "pair" -> IF Pair_len(x) < 0 THEN "raise" ELSE "true"
      [] x.t = "pylist" -> IF x.items = <<>> THEN "false" ELSE "true"
      [] OTHER -> "true"

\* Python's x == False: bool is a subclass of int, so 0 == False
PyEqFalse(x) ==
    CASE x.t = "bool" -> ~x.b
      [] x.t = "num" -> x.n = 0
      [] OTHER -> FALSE

\* ------------------------------------------------------- evaluation state
\* The state threaded through one evaluation: the heap of frames h, the
\* log of the scheme_eval activations in the order they were entered (each
\* with its expression, environment, nesting depth and, once it is over, the
\* value it returned or the class of the exception it raised), the closure
\* calls made, the bindings that define forms made (each with the heap
\* before and after it), the binding lists of let* forms that were
\* processed (each with the heap before and after it), the value returned and the exception raised
\* (cls = "" when none), and the deepest nesting reached.
NoExc == [cls |-> "", msg |-> ""]

Raise(s, cls, msg) == [s EXCEPT !.exc = [cls |-> cls, msg |-> msg], !.val = None]

Return(s, v) == [s EXCEPT !.val = v]

Raised(s) == s.exc.cls # ""

EvalState(h) ==
    [h |-> h, log |-> <<>>, calls |-> <<>>, defs |-> <<>>, stars |-> <<>>, val |-> None,
     exc |-> NoExc, maxd |-> 0]

\* ------------------------------------------------------------------ Frame
EmptyDict == [k \in {} |-> None]

DictPut(inner, key, val) ==
    [k \in (DOMAIN inner) \cup {key} |-> IF k = key THEN val ELSE inner[k]]

Frame(parent) == [inner |-> EmptyDict, parent |-> parent]

\* Frame.find: the index of the frame at or above env that defines sym,
\* 0 for the SchemeError "unknown identifier"
RECURSIVE Frame_find(_, _, _)
Frame_find(h, env, sym) ==
    IF sym \in DOMAIN h[env].inner THEN env
    ELSE IF h[env].parent # 0 THEN Frame_find(h, h[env].parent, sym)
    ELSE 0

\* Frame.define with the binding made where the symbol is found, from the
\* frame up through its ancestors, and in the frame itself when it is unbound
Frame_define_found(h, env, sym, val) ==
    LET f == IF Frame_find(h, env, sym) = 0 THEN env ELSE Frame_find(h, env, sym)
    IN  [h EXCEPT ![f].inner = DictPut(@, sym, val)]

\* Frame.define, and "env.inner[name] = value"
Frame_define(h, env, sym, val) ==
    [h EXCEPT ![env].inner = DictPut(@, sym, val)]

\* what iterating a formals or vals object yields; "TypeError" when the
\* object is not iterable
IterItems(x) ==
    CASE x.t = "pair" -> Pair_iter(x)
      [] x.t = "nil" -> <<>>
      [] x.t = "pylist" -> x.items
      [] x.t = "sym" -> [i \in 1..Len(Chars(x.s)) |-> Sym(Chars(x.s)[i])]
      [] OTHER -> <<>>

PyLen(x) ==
    CASE x.t = "pair" -> Pair_len(x)
      [] x.t = "nil" -> 0
      [] x.t = "pylist" -> Len(x.items)
      [] x.t = "sym" -> Len(Chars(x.s))
      [] OTHER -> -2

Min(a, b) == IF a < b THEN a ELSE b

Max(a, b) == IF a > b THEN a ELSE b

\* the bindings that "for (key, val) in zip(formals, vals)" stores
RECURSIVE ZipInto(_, _, _)
ZipInto(inner, keys, vals) ==
    IF keys = <<>> \/ vals = <<>> THEN inner
    ELSE ZipInto(DictPut(inner, Head(keys), Head(vals)), Tail(keys), Tail(vals))

\* Frame.make_call_frame(self, formals, vals): the new frame is appended to
\* the heap and returned as [t |-> "frame", id]
make_call_frame(s, self, formals, vals) ==
    LET id == Len(s.h) + 1
        n == PyLen(formals)
        alloc(inner) == [s EXCEPT !.h = Append(@, [Frame(self) EXCEPT !.inner = inner]),
                                  !.val = [t |-> "frame", id |-> id]]
    IN  IF n = -2 \/ (n >= 0 /\ PyLen(vals) = -2)
        THEN Raise(s, "TypeError", "object is not iterable")
        ELSE IF n >= 0
        THEN alloc(ZipInto(EmptyDict, IterItems(formals), IterItems(vals)))
        ELSE \* len(formals) raised SchemeError: the except branch
             IF ~IsPair(vals)
             THEN Raise(s, "AttributeError", "object has no attribute 'first'")
             ELSE alloc(DictPut(DictPut(EmptyDict, formals.first, vals.first),
                                formals.second, vals.second))

\* ------------------------------------------------------------ Eval/Apply
LOGIC_FORMS == {"and", "or", "if", "cond", "begin", "case"}

\* check_form(expr, min, max): the exception it raises, NoExc when none;
\* max = -1 stands for max = None
check_form(expr, min, max) ==
    IF ~scheme_listp(expr) THEN [cls |-> "Exception", msg |-> "badly formed expression"]
    ELSE IF Pair_len(expr) < min
    THEN [cls |-> "SchemeError", msg |-> "too few operands in form"]
    ELSE IF max # -1 /\ Pair_len(expr) > max
    THEN [cls |-> "SchemeError", msg |-> "too many operands in form"]
    ELSE NoExc

\* the loop of check_formals over a Pair: args holds the characters that
\* "args += formals.first" has put in the list so far
RECURSIVE check_formals_loop(_, _)
check_formals_loop(formals, args) ==
    IF ~IsPair(formals.second) THEN NoExc
    ELSE IF IsPair(formals.first)
    THEN [cls |-> "SchemeError", msg |-> "formal arguments cannot be pair"]
    ELSE IF scheme_symbolp(formals.first) /\ formals.first.s \in args
    THEN [cls |-> "SchemeError", msg |-> "formal arguments cannot have the same name"]
    ELSE IF formals.first.t \notin {"sym", "nil"}
    THEN [cls |-> "TypeError", msg |-> "object is not iterable"]
    ELSE check_formals_loop(formals.second,
            IF scheme_symbolp(formals.first)
            THEN args \cup {Chars(formals.first.s)[i] : i \in 1..Len(Chars(formals.first.s))}
            ELSE args)

check_formals(formals) ==
    IF IsPair(formals) THEN check_formals_loop(formals, {})
    ELSE IF scheme_numberp(formals)
    THEN [cls |-> "SchemeError", msg |-> "formal arguments cannot be number"]
    ELSE NoExc

\* do_lambda_form(vals, env)
do_lambda_form(vals, env, s) ==
    LET cf == check_form(vals, 2, -1)
        formals == vals.first
        body == vals.second
    IN  IF cf # NoExc THEN Raise(s, cf.cls, cf.msg)
        ELSE IF check_formals(formals) # NoExc
        THEN Raise(s, check_formals(formals).cls, check_formals(formals).msg)
        ELSE IF Pair_len(body) # 1
        THEN Return(s, LambdaProcedure(formals, Pair(Sym("begin"), body), env))
        ELSE Return(s, LambdaProcedure(formals, body.first, env))

\* do_quote_form(vals)
do_quote_form(vals, s) ==
    LET cf == check_form(vals, 1, 1)
    IN  IF cf # NoExc THEN Raise(s, cf.cls, cf.msg) ELSE Return(s, vals.first)

\* the primitives of scheme_primitives.py that the model registers
PrimNames == {"error", "cons", "cdr", "null?"}

\* apply_primitive(procedure, arg_list, env): a TypeError of the native call
\* (here: a wrong number of arguments) becomes a SchemeError
apply_primitive(procedure, arg_list, env, s) ==
    LET al == IF procedure.use_env THEN Append(arg_list, None) ELSE arg_list
    IN  CASE procedure.fn = "error" ->
               IF Len(al) > 1 THEN Raise(s, "SchemeError", "Wrong type of argument")
               ELSE Raise(s, "SchemeError", "error")
          [] procedure.fn = "cons" ->
               IF Len(al) # 2 THEN Raise(s, "SchemeError", "Wrong type of argument")
               ELSE Return(s, Pair(al[1], al[2]))
          [] procedure.fn = "cdr" ->
               IF Len(al) # 1 THEN Raise(s, "SchemeError", "Wrong type of argument")
               ELSE IF ~IsPair(al[1])
               THEN Raise(s, "SchemeError", "argument 0 of cdr has wrong type")
               ELSE Return(s, al[1].second)
          [] procedure.fn = "null?" ->
               IF Len(al) # 1 THEN Raise(s, "SchemeError", "Wrong type of argument")
               ELSE Return(s, Bool(scheme_nullp(al[1])))
          [] OTHER -> Raise(s, "NotImplementedError", "")

RECURSIVE scheme_eval(_, _, _, _)
RECURSIVE scheme_apply(_, _, _, _, _)
RECURSIVE map_operands(_, _, _, _, _)
RECURSIVE do_define_form(_, _, _, _)
RECURSIVE let_bindings(_, _, _, _, _, _)
RECURSIVE eval_all(_, _, _, _)
RECURSIVE do_let_form(_, _, _, _)
RECURSIVE let_star_bindings(_, _, _, _)
RECURSIVE do_let_star_form(_, _, _, _)
RECURSIVE do_if_form(_, _, _, _)
RECURSIVE do_and_form(_, _, _, _)
RECURSIVE do_or_form(_, _, _, _)
RECURSIVE cond_loop(_, _, _, _, _, _)
RECURSIVE do_cond_form(_, _, _, _)
RECURSIVE begin_loop(_, _, _, _, _, _)
RECURSIVE do_begin_form(_, _, _, _)

\* LOGIC_FORMS[first](rest, env)
logic_form(first, rest, env, s, d) ==
    CASE first = "and" -> do_and_form(Pair_iter(rest), env, s, d)
      [] first = "or" -> do_or_form(Pair_iter(rest), env, s, d)
      [] first = "if" -> do_if_form(rest, env, s, d)
      [] first = "cond" -> do_cond_form(rest, env, s, d)
      [] first = "begin" -> do_begin_form(rest, env, s, d)
      [] first = "case" -> Return(s, Bool(FALSE))

\* scheme_eval(expr, env); d is the number of scheme_eval activations on
\* the Python stack, this one included
scheme_eval(expr, env, s, d) ==
    LET idx == Len(s.log) + 1
        s0 == [s EXCEPT !.log = Append(@, [expr |-> expr, env |-> env, depth |-> d,
                                           val |-> None, exc |-> ""]),
                        !.maxd = Max(@, d)]
        first == expr.first
        rest == expr.second
        kw == IF scheme_symbolp(first) THEN first.s ELSE ""
        r == IF d > MaxDepth
             THEN Raise(s0, "RuntimeError", "maximum recursion depth exceeded")
             ELSE IF expr = None
             THEN Raise(s0, "SchemeError", "Cannot evaluate an undefined expression.")
             ELSE IF scheme_symbolp(expr)
             THEN IF Frame_find(s0.h, env, expr) = 0
                  THEN Raise(s0, "SchemeError", "unknown identifier")
                  ELSE Return(s0, s0.h[Frame_find(s0.h, env, expr)].inner[expr])
             ELSE IF scheme_atomp(expr) THEN Return(s0, expr)
             ELSE IF ~scheme_listp(expr) THEN Raise(s0, "SchemeError", "malformed list")
             ELSE IF kw \in LOGIC_FORMS
             THEN LET f == logic_form(kw, rest, env, s0, d)
                  IN  IF Raised(f) THEN f ELSE scheme_eval(f.val, env, f, d + 1)
             ELSE IF kw = "lambda" THEN do_lambda_form(rest, env, s0)
             ELSE IF kw = "define"
             THEN LET f == do_define_form(rest, env, s0, d)
                  IN  IF Raised(f) THEN f ELSE Return(f, None)
             ELSE IF kw = "quote" THEN do_quote_form(rest, s0)
             ELSE IF kw = "let"
             THEN LET f == do_let_form(rest, env, s0, d)
                  IN  IF Raised(f) THEN f
                      ELSE scheme_eval(f.val.expr, f.val.env, f, d + 1)
             ELSE IF kw = "let*"
             THEN LET f == do_let_star_form(rest, env, s0, d)
                  IN  IF Raised(f) THEN f
                      ELSE scheme_eval(f.val.expr, f.val.env, f, d + 1)
             ELSE LET p == scheme_eval(first, env, s0, d + 1)
                  IN  IF Raised(p) THEN p
                      ELSE LET a == map_operands(Pair_iter(rest), <<>>, env, p, d)
                           IN  IF Raised(a) THEN a
                               ELSE scheme_apply(p.val, a.val, env, a, d)
    IN  \* the log entry of this activation records what it returned or raised
        [r EXCEPT !.log[idx].val = r.val, !.log[idx].exc = r.exc.cls]

\* rest.map(lambda operand: scheme_eval(operand, env)): Pair.map evaluates
\* the operands left to right; the result is the Scheme list of the values
map_operands(items, done, env, s, d) ==
    IF items = <<>> THEN Return(s, List(done))
    ELSE LET r == scheme_eval(Head(items), env, s, d + 1)
         IN  IF Raised(r) THEN r
             ELSE map_operands(Tail(items), Append(done, r.val), env, r, d)

\* scheme_apply(procedure, args, env)
scheme_apply(procedure, args, env, s, d) ==
    IF procedure.t = "prim"
    THEN apply_primitive(procedure, Pair_iter(args), env, s)
    ELSE IF procedure.t = "lambda"
    THEN LET f == make_call_frame(s, env, procedure.formals, args)
         IN  IF Raised(f) THEN f
             ELSE scheme_eval(procedure.body, f.val.id,
                      [f EXCEPT !.calls = Append(@, [procedure |-> procedure,
                                                     args |-> args, env |-> env,
                                                     frame |-> f.val.id])],
                      d + 1)
    ELSE Raise(s, "SchemeError", "Cannot call")

\* "env.inner[name] = value" of do_define_form, entered in the list of the
\* bindings made
define_binding(s, env, sym, val) ==
    LET post == Frame_define(s.h, env, sym, val)
    IN  [s EXCEPT !.h = post,
                  !.defs = Append(@, [env |-> env, sym |-> sym, val |-> val,
                                      pre |-> s.h, post |-> post])]

\* do_define_form(vals, env)
do_define_form(vals, env, s, d) ==
    LET cf == check_form(vals, 2, -1)
    IN  IF cf # NoExc THEN Raise(s, cf.cls, cf.msg)
        ELSE IF IsPair(vals.first)
        THEN LET r == do_lambda_form(Pair(vals.first.second, vals.second), env, s)
             IN  IF Raised(r) THEN r
                 ELSE define_binding(r, env, vals.first.first, r.val)
        ELSE LET r == scheme_eval(vals.second.first, env, s, d + 1)
             IN  IF Raised(r) THEN r
                 ELSE define_binding(r, env, vals.first, r.val)

\* the first loop of do_let_form: every value expression is evaluated in env
let_bindings(items, names, vals, env, s, d) ==
    IF items = <<>> THEN Return(s, [names |-> names, vals |-> vals])
    ELSE IF ~IsPair(Head(items)) \/ ~IsPair(Head(items).second)
    THEN Raise(s, "AttributeError", "object has no attribute 'first'")
    ELSE LET r == scheme_eval(Head(items).second.first, env, s, d + 1)
         IN  IF Raised(r) THEN r
             ELSE let_bindings(Tail(items), Append(names, Head(items).first),
                               Append(vals, r.val), env, r, d)

\* "for i in range(0, last): scheme_eval(exprs[i], env)"
eval_all(items, env, s, d) ==
    IF items = <<>> THEN s
    ELSE LET r == scheme_eval(Head(items), env, s, d + 1)
         IN  IF Raised(r) THEN r ELSE eval_all(Tail(items), env, r, d)

\* do_let_form with the slip that do_let_star_form has: the body is
\* evaluated in env instead of new_env
do_let_form_outer(vals, env, s, d) ==
    LET cf == check_form(vals, 2, -1)
        bindings == vals.first
        exprs == Pair_iter(vals.second)
        last == Len(exprs) - 1
    IN  IF cf # NoExc THEN Raise(s, cf.cls, cf.msg)
        ELSE IF ~scheme_listp(bindings)
        THEN Raise(s, "SchemeError", "bad bindings list in let form")
        ELSE LET b == let_bindings(Pair_iter(bindings), <<>>, <<>>, env, s, d)
             IN  IF Raised(b) THEN b
                 ELSE LET f == make_call_frame(b, env, PyList(b.val.names), PyList(b.val.vals))
                          r == eval_all(SubSeq(exprs, 1, last), env, f, d)
                      IN  IF Raised(r) THEN r
                          ELSE Return(r, [t |-> "tail", expr |-> exprs[last + 1],
                                          env |-> env])

\* do_let_form(vals, env): returns the pair (last body expression, new_env)
do_let_form(vals, env, s, d) ==
    LET cf == check_form(vals, 2, -1)
        bindings == vals.first
        exprs == Pair_iter(vals.second)
        last == Len(exprs) - 1
    IN  IF cf # NoExc THEN Raise(s, cf.cls, cf.msg)
        ELSE IF ~scheme_listp(bindings)
        THEN Raise(s, "SchemeError", "bad bindings list in let form")
        ELSE LET b == let_bindings(Pair_iter(bindings), <<>>, <<>>, env, s, d)
             IN  IF Raised(b) THEN b
                 ELSE LET f == make_call_frame(b, env, PyList(b.val.names), PyList(b.val.vals))
                          new_env == f.val.id
                          r == eval_all(SubSeq(exprs, 1, last), new_env, f, d)
                      IN  IF Raised(r) THEN r
                          ELSE Return(r, [t |-> "tail", expr |-> exprs[last + 1],
                                          env |-> new_env])

\* binding[k] in do_let_star_form, for a binding that is a Pair, NULL or a str
binding_getitem(binding, k) ==
    CASE binding.t \in {"pair", "nil"} -> Pair_getitem(binding, k)
      [] binding.t = "sym" ->
           IF k < Len(Chars(binding.s))
           THEN [ok |-> TRUE, v |-> Sym(Chars(binding.s)[k + 1])]
           ELSE [ok |-> FALSE, v |-> "IndexError"]
      [] OTHER -> [ok |-> FALSE, v |-> "TypeError"]

\* the loop of do_let_star_form with the value expressions evaluated in the
\* enclosing environment, as do_let_form does
let_star_bindings_outer(items, new_env, s, d) ==
    IF items = <<>> THEN s
    ELSE LET name == binding_getitem(Head(items), 0)
             ex == binding_getitem(Head(items), 1)
             bad == IF ~name.ok THEN name.v ELSE ex.v
         IN  IF ~name.ok \/ ~ex.ok
             THEN IF bad \in {"IndexError", "TypeError"} THEN Raise(s, bad, "")
                  ELSE Raise(s, "SchemeError", bad)
             ELSE LET r == scheme_eval(ex.v, s.h[new_env].parent, s, d + 1)
                  IN  IF Raised(r) THEN r
                      ELSE let_star_bindings(Tail(items), new_env,
                               [r EXCEPT !.h = Frame_define(@, new_env, name.v, r.val)],
                               d)

\* the loop of do_let_star_form: each value expression is evaluated in
\* new_env, which already holds the earlier bindings
let_star_bindings(items, new_env, s, d) ==
    IF items = <<>> THEN s
    ELSE LET name == binding_getitem(Head(items), 0)
             ex == binding_getitem(Head(items), 1)
             bad == IF ~name.ok THEN name.v ELSE ex.v
         IN  IF ~name.ok \/ ~ex.ok
             THEN IF bad \in {"IndexError", "TypeError"} THEN Raise(s, bad, "")
                  ELSE Raise(s, "SchemeError", bad)
             ELSE LET r == scheme_eval(ex.v, new_env, s, d + 1)
                  IN  IF Raised(r) THEN r
                      ELSE let_star_bindings(Tail(items), new_env,
                               [r EXCEPT !.h = Frame_define(@, new_env, name.v, r.val)],
                               d)

\* the binding list of a let* form is done: it is entered in the list with
\* the heap before the form and the heap now
star_bound(s, b, env, new_env) ==
    [b EXCEPT !.stars = Append(@, [env |-> env, frame |-> new_env, pre |-> s.h,
                                   post |-> b.h])]

\* do_let_star_form with the body evaluated where let evaluates it: in
\* new_env, the frame that holds the bindings
do_let_star_form_inner(vals, env, s, d) ==
    LET cf == check_form(vals, 2, -1)
        bindings == vals.first
        exprs == Pair_iter(vals.second)
        last == Len(exprs) - 1
    IN  IF cf # NoExc THEN Raise(s, cf.cls, cf.msg)
        ELSE IF ~scheme_listp(bindings)
        THEN Raise(s, "SchemeError", "bad bindings list in let form")
        ELSE LET f == make_call_frame(s, env, NULL, NULL)
                 b == let_star_bindings(Pair_iter(bindings), f.val.id, f, d)
             IN  IF Raised(b) THEN b
                 ELSE LET r == eval_all(SubSeq(exprs, 1, last), f.val.id,
                                        star_bound(s, b, env, f.val.id), d)
                      IN  IF Raised(r) THEN r
                          ELSE Return(r, [t |-> "tail", expr |-> exprs[last + 1],
                                          env |-> f.val.id])

\* do_let_star_form(vals, env): returns the pair (last body expression, env)
do_let_star_form(vals, env, s, d) ==
    LET cf == check_form(vals, 2, -1)
        bindings == vals.first
        exprs == Pair_iter(vals.second)
        last == Len(exprs) - 1
    IN  IF cf # NoExc THEN Raise(s, cf.cls, cf.msg)
        ELSE IF ~scheme_listp(bindings)
        THEN Raise(s, "SchemeError", "bad bindings list in let form")
        ELSE LET f == make_call_frame(s, env, NULL, NULL)
                 b == let_star_bindings(Pair_iter(bindings), f.val.id, f, d)
             IN  IF Raised(b) THEN b
                 ELSE LET r == eval_all(SubSeq(exprs, 1, last), env,
                                        star_bound(s, b, env, f.val.id), d)
                      IN  IF Raised(r) THEN r
                          ELSE Return(r, [t |-> "tail", expr |-> exprs[last + 1],
                                          env |-> env])

\* do_if_form(vals, env): returns the branch expression that scheme_eval
\* then evaluates
do_if_form(vals, env, s, d) ==
    LET cf == check_form(vals, 3, 3)
        condition == vals.first
        if_true == vals.second.first
        if_false == vals.second.second.first
    IN  IF cf # NoExc THEN Raise(s, cf.cls, cf.msg)
        ELSE LET r == scheme_eval(condition, env, s, d + 1)
             IN  IF Raised(r) THEN r
                 ELSE IF PyTruth(r.val) = "raise"
                 THEN Raise(r, "SchemeError", "length attempted on improper list")
                 ELSE IF PyTruth(r.val) = "true" THEN Return(r, if_true)
                 ELSE Return(r, if_false)

\* do_and_form(vals, env), over the operands still to be evaluated
do_and_form(items, env, s, d) ==
    IF items = <<>> THEN Return(s, Bool(TRUE))
    ELSE LET r == scheme_eval(Head(items), env, s, d + 1)
         IN  IF Raised(r) THEN r
             ELSE IF PyEqFalse(r.val) THEN Return(r, Bool(FALSE))
             ELSE do_and_form(Tail(items), env, r, d)

\* do_or_form(vals, env), over the operands still to be evaluated
do_or_form(items, env, s, d) ==
    IF items = <<>> THEN Return(s, Bool(FALSE))
    ELSE LET r == scheme_eval(Head(items), env, s, d + 1)
         IN  IF Raised(r) THEN r
             ELSE IF ~PyEqFalse(r.val) THEN Return(r, Bool(TRUE))
             ELSE do_or_form(Tail(items), env, r, d)

\* the loop of do_cond_form from clause number i on
cond_loop(items, i, num_clauses, env, s, d) ==
    IF items = <<>> THEN Return(s, None)
    ELSE LET clause == Head(items)
             cf == check_form(clause, 1, -1)
             isElse == clause.first = Sym("else")
             t == IF isElse THEN Return(s, Bool(TRUE))
                  ELSE scheme_eval(clause.first, env, s, d + 1)
         IN  IF cf # NoExc THEN Raise(s, cf.cls, cf.msg)
             ELSE IF isElse /\ i < num_clauses - 1
             THEN Raise(s, "SchemeError", "else must be last")
             ELSE IF isElse /\ clause.second = NULL
             THEN Raise(s, "SchemeError", "badly formed else clause")
             ELSE IF Raised(t) THEN t
             ELSE IF PyTruth(t.val) = "raise"
             THEN Raise(t, "SchemeError", "length attempted on improper list")
             ELSE IF PyTruth(t.val) = "true"
             THEN IF Pair_len(clause.second) > 1
                  THEN scheme_eval(Pair(Sym("begin"), clause.second), env, t, d + 1)
                  ELSE IF Pair_len(clause.second) = 1
                  THEN scheme_eval(clause.second.first, env, t, d + 1)
                  ELSE Return(t, Bool(TRUE))
             ELSE cond_loop(Tail(items), i + 1, num_clauses, env, t, d)

\* do_cond_form(vals, env)
do_cond_form(vals, env, s, d) ==
    cond_loop(Pair_iter(vals), 0, Pair_len(vals), env, s, d)

\* the loop of do_begin_form; i counts the statements seen so far
begin_loop(items, i, vals, env, s, d) ==
    IF items = <<>> THEN Return(s, None)
    ELSE IF i + 1 = Pair_len(vals) - 1
    THEN Return(s, Pair_getitem(vals, i + 1).v)
    ELSE LET r == scheme_eval(Head(items), env, s, d + 1)
         IN  IF Raised(r) THEN r
             ELSE begin_loop(Tail(items), i + 1, vals, env, r, d)

\* do_begin_form(vals, env)
do_begin_form(vals, env, s, d) ==
    LET cf == check_form(vals, 1, -1)
    IN  IF cf # NoExc THEN Raise(s, cf.cls, cf.msg)
        ELSE begin_loop(Pair_iter(vals), 0, vals, env, s, d)

\* ------------------------------------------------------ reachable frames
\* the frames a value refers to: the captured environments of its closures
RECURSIVE FrameRefs(_)
FrameRefs(v) ==
    CASE v.t = "lambda" -> {v.env}
      [] v.t = "pair" -> FrameRefs(v.first) \cup FrameRefs(v.second)
      [] OTHER -> {}

RECURSIVE Reach(_, _)
Reach(h, fs) ==
    LET parents == {h[f].parent : f \in fs} \ {0}
        captured == UNION {UNION {FrameRefs(h[f].inner[k]) : k \in DOMAIN h[f].inner} :
                           f \in fs}
        more == (fs \cup parents) \cup captured
    IN  IF more = fs THEN fs ELSE Reach(h, more)

\* Frames are released once unreachable: the heap keeps the frames up to the
\* last one that the global frame still reaches
Collect(h) ==
    LET live == Reach(h, {1})
        top == CHOOSE f \in live : \A g \in live : g <= f
    IN  SubSeq(h, 1, top)

\* ------------------------------------------------------------------ reader
\* Tokens are the values the tokenizer yields: numbers, booleans, NULL and
\* strings; a delimiter is a string like a symbol is.
DELIMITERS == {Sym("("), Sym(")"), Sym("'"), Sym(".")}

\* the end-of-file marker of scheme_primitives.py
EOF == [t |-> "eof"]

\* The token source: current() is the token at the index, None when no token
\* remains; pop() hands it out and advances.
Buffer(toks) == [toks |-> toks, index |-> 1]

Buffer_current(port) ==
    IF port.index <= Len(port.toks) THEN port.toks[port.index] ELSE None

Buffer_pop(port) == [port EXCEPT !.index = @ + 1]

\* The state threaded through one read: the port, the expression read and
\* the exception raised (cls = "" when none).
ReadState(port) == [port |-> port, val |-> None, exc |-> NoExc]

RECURSIVE scheme_read(_)
RECURSIVE read_tail(_)
\* read_tail() of scheme_read.  len(a) after a dot is the length of a list,
\* the SchemeError of an improper list or the length of a string; a number
\* or a boolean has no len(), and a string has no attribute first
read_tail(port) ==
    LET s == ReadState(port)
        cur == Buffer_current(port)
    IN  IF cur = None THEN Raise(s, "SchemeError", "unexpected end of file")
        ELSE IF cur = Sym(")") THEN Return(ReadState(Buffer_pop(port)), NULL)
        ELSE IF cur = Sym(".")
        THEN LET a == read_tail(Buffer_pop(port))
                 n == PyLen(a.val)
             IN  IF Raised(a) THEN a
                 ELSE IF n = -1
                 THEN Raise(a, "SchemeError", "length attempted on improper list")
                 ELSE IF n = -2 THEN Raise(a, "TypeError", "object has no len()")
                 ELSE IF n # 1 THEN Raise(a, "SchemeError", "too many elements in pair")
                 ELSE IF ~IsPair(a.val)
                 THEN Raise(a, "AttributeError", "object has no attribute 'first'")
                 ELSE Return(a, a.val.first)
        ELSE LET x == scheme_read(port)
             IN  IF Raised(x) THEN x
                 ELSE LET r == read_tail(x.port)
                      IN  IF Raised(r) THEN r ELSE Return(r, Pair(x.val, r.val))

\* scheme_read(input_port)
scheme_read(port) ==
    LET s == ReadState(port)
        val == Buffer_current(port)
        popped == Buffer_pop(port)
    IN  IF val = None THEN Return(s, EOF)
        ELSE IF scheme_atomp(val) /\ val \notin DELIMITERS
        THEN Return(ReadState(popped), val)
        ELSE IF val = Sym("'")
        THEN LET x == scheme_read(popped)
             IN  IF Raised(x) THEN x
                 ELSE Return(x, Pair(Sym("quote"), Pair(x.val, NULL)))
        ELSE IF val = Sym("(") THEN read_tail(popped)
        ELSE Raise(ReadState(popped), "SchemeError", "unexpected token")

\* ------------------------------------------------------------ expressions
QuoteOf(x) == List(<<Sym("quote"), x>>)

DefineOf(name, x) == List(<<Sym("define"), name, x>>)

ErrorCall == List(<<Sym("error")>>)

ImproperPair == Pair(Num(1), Num(2))

\* (define (f x) (lambda () x))
DefF ==
    List(<<Sym("define"), List(<<Sym("f"), Sym("x")>>),
           List(<<Sym("lambda"), NULL, Sym("x")>>)>>)

\* (define g (f 1))
DefG == DefineOf(Sym("g"), List(<<Sym("f"), Num(1)>>))

\* ((f 1))
CallF1 == List(<<List(<<Sym("f"), Num(1)>>)>>)

\* (f 2)
CallF2 == List(<<Sym("f"), Num(2)>>)

\* (g)
CallG == List(<<Sym("g")>>)

\* (define (loop l) (if (null? l) 0 (loop (cdr l))))
DefLoop ==
    List(<<Sym("define"), List(<<Sym("loop"), Sym("l")>>),
           List(<<Sym("if"), List(<<Sym("null?"), Sym("l")>>), Num(0),
                  List(<<Sym("loop"), List(<<Sym("cdr"), Sym("l")>>)>>)>>)>>)

\* (loop (quote (1 .. 1))) with n elements: n iterations, then 0
LoopCall(n) == List(<<Sym("loop"), QuoteOf(List([i \in 1..n |-> Num(1)]))>>)

LoopForms == {DefLoop} \cup {LoopCall(n) : n \in 0..MaxIterations}

SeqsUpTo(S, lo, hi) == UNION {[1..n -> S] : n \in lo..hi}

\* begin forms: every sequence of 1 .. MaxStatements of these sub-expressions
BeginSubs == {Num(1), DefineOf(Sym("a"), Num(1)), Sym("a")}

BeginForms ==
    {Pair(Sym("begin"), List(es)) : es \in SeqsUpTo(BeginSubs, 1, MaxStatements)}
        \cup {List(<<Sym("begin")>>)}

\* cond forms: every sequence of 0 .. MaxClauses of these clauses
CondClauses ==
    { List(<<Bool(FALSE), Num(1)>>),
      List(<<Bool(TRUE)>>),
      List(<<Bool(TRUE), QuoteOf(Sym("a"))>>),
      List(<<Bool(TRUE), Num(1), Num(2)>>),
      List(<<Num(0), Num(1)>>),
      List(<<Sym("else"), QuoteOf(Sym("a"))>>) }

CondForms ==
    {Pair(Sym("cond"), List(cs)) : cs \in SeqsUpTo(CondClauses, 0, MaxClauses)}

\* if forms: three sub-parts, and some with two or four
IfTests == {Bool(TRUE), Bool(FALSE), Num(0), QuoteOf(ImproperPair), ErrorCall}

IfBranches == {Num(1), DefineOf(Sym("a"), Num(1)), ErrorCall}

IfForms ==
    {List(<<Sym("if"), t, c, a>>) : t \in IfTests, c \in IfBranches, a \in IfBranches}
        \cup {List(<<Sym("if"), Bool(TRUE), c>>) : c \in IfBranches}
        \cup {List(<<Sym("if"), Bool(TRUE), c, Num(2), Num(3)>>) : c \in IfBranches}

\* and / or forms: every sequence of 0 .. MaxOperands of these operands
LogicOperands == {Bool(TRUE), Bool(FALSE), Num(0), DefineOf(Sym("a"), Num(1))}

AndOrForms ==
    {Pair(Sym(k), List(os)) : k \in {"and", "or"},
                              os \in SeqsUpTo(LogicOperands, 0, MaxOperands)}

\* let and let* forms: every sequence of 0 .. MaxBindings of these bindings,
\* with each of these bodies
LetBindings ==
    { List(<<Sym("p"), Num(1)>>), List(<<Sym("q"), Sym("p")>>),
      List(<<Sym("a"), Num(2)>>), List(<<Sym("q"), Sym("a")>>) }

LetBodies ==
    { <<Sym("q")>>, <<Sym("p"), Sym("q")>>, <<Sym("a")>>,
      <<List(<<Sym("let"), List(<<List(<<Sym("q"), Sym("p")>>)>>), Sym("q")>>)>>,
      <<List(<<Sym("let*"), List(<<List(<<Sym("p"), Num(3)>>),
                                   List(<<Sym("q"), Sym("p")>>)>>), Num(5)>>)>> }

LetForms ==
    {Pair(Sym(k), Pair(List(bs), List(body))) :
        k \in {"let", "let*"},
        bs \in SeqsUpTo(LetBindings, 0, MaxBindings),
        body \in LetBodies}

\* closures and calls
CallForms ==
    { DefF, DefG, CallF1, CallF2, CallG,
      \* ((lambda (a b) a) 1)
      List(<<List(<<Sym("lambda"), List(<<Sym("a"), Sym("b")>>), Sym("a")>>), Num(1)>>),
      \* ((lambda (a) a) 1 2)
      List(<<List(<<Sym("lambda"), List(<<Sym("a")>>), Sym("a")>>), Num(1), Num(2)>>),
      \* ((lambda (a b . c) c) 1 2 3)
      List(<<List(<<Sym("lambda"), DottedList(<<Sym("a"), Sym("b")>>, Sym("c")),
                    Sym("c")>>), Num(1), Num(2), Num(3)>>),
      \* ((lambda (a . c) c) 1 2)
      List(<<List(<<Sym("lambda"), DottedList(<<Sym("a")>>, Sym("c")),
                    Sym("c")>>), Num(1), Num(2)>>),
      \* (let ((x 1)) (f 2)) and (let ((x 1)) ((f 2)))
      List(<<Sym("let"), List(<<List(<<Sym("x"), Num(1)>>)>>), CallF2>>),
      List(<<Sym("let"), List(<<List(<<Sym("x"), Num(1)>>)>>), List(<<CallF2>>)>>) }

\* lambda forms (lambda (p1 .. pn) 1): every sequence of 0 .. MaxFormals of
\* these formals; the procedure form of define with a repeated formal
FormalItems == {Sym("a"), Sym("b"), Num(1), List(<<Sym("a")>>)}

LambdaForms ==
    {List(<<Sym("lambda"), List(fs), Num(1)>>) : fs \in SeqsUpTo(FormalItems, 0, MaxFormals)}
        \cup {List(<<Sym("define"), List(<<Sym("f"), Sym("a"), Sym("a")>>), Num(1)>>),
               List(<<Sym("define"), List(<<Sym("f"), Sym("a"), Sym("a"), Sym("b")>>),
                      Num(1)>>)}

\* define in the frame of a let form, of a name bound there or not:
\* (let ((p 1)) (define a 3) a) and (let ((a 2)) (define a 3) a)
DefineForms ==
    {List(<<Sym("let"), List(<<List(<<Sym(n), Num(v)>>)>>), DefineOf(Sym("a"), Num(3)),
            Sym("a")>>) : n \in {"p"}, v \in {1}}
        \cup {List(<<Sym("let"), List(<<List(<<Sym("a"), Num(2)>>)>>),
                      DefineOf(Sym("a"), Num(3)), Sym("a")>>)}

\* the top-level expressions handed to scheme_eval
Programs == BeginForms \cup CondForms \cup IfForms \cup AndOrForms
                \cup LetForms \cup CallForms \cup LambdaForms \cup LoopForms
                \cup DefineForms

\* the formals and the argument lists handed to Frame.make_call_frame
FormalSyms == <<Sym("a"), Sym("b"), Sym("c")>>

ProperFormals == {List(SubSeq(FormalSyms, 1, n)) : n \in 0..3}

ImproperFormals == {DottedList(SubSeq(FormalSyms, 1, n), Sym("r")) : n \in 1..3}

ArgLists == {List([i \in 1..n |-> Num(i)]) : n \in 0..MaxArgs}

\* the symbols and the values handed to Frame.define
DefineSyms == {Sym("a")}

DefineVals == {Num(1)}

\* ---------------------------------------------------------- state machine
\* heap: the frames that are alive; pc: "read" when the caller is about to
\* make its next call, "display" when a call has returned and its outcome is
\* in last; last: the last operation, its inputs, the heap before it (pre),
\* the evaluation state it ended in (res), the port before the read (inp)
\* and the state the read ended in (rd)
\* port: the token source that read_eval_print reads from (left empty when
\* the caller hands over expressions that were read already)
VARIABLES heap, pc, last, port

vars == <<heap, pc, last, port>>

\* create_global_frame(): the global frame with the registered primitives
create_global_frame ==
    [inner |-> [k \in {Sym(n) : n \in PrimNames} |-> PrimitiveProcedure(k.s, FALSE)],
     parent |-> 0]

NoCall ==
    [op |-> "none", expr |-> None, self |-> 0, formals |-> None, vals |-> None,
     pre |-> <<>>, res |-> EvalState(<<>>), inp |-> Buffer(<<>>),
     rd |-> ReadState(Buffer(<<>>))]

Init ==
    /\ heap = <<create_global_frame>>
    /\ pc = "read"
    /\ last = NoCall
    /\ port = Buffer(<<>>)

\* val = scheme_eval(expr, env) on the global frame
Evaluate(expr) ==
    LET r == scheme_eval(expr, 1, EvalState(heap), 1)
    IN  /\ pc = "read"
        /\ Len(Collect(r.h)) <= MaxFrames
        /\ heap' = Collect(r.h)
        /\ pc' = "display"
        /\ last' = [op |-> "scheme_eval", expr |-> expr, self |-> 1, formals |-> None,
                    vals |-> None, pre |-> heap, res |-> r, inp |-> NoCall.inp,
                    rd |-> NoCall.rd]
        /\ UNCHANGED port

\* self.make_call_frame(formals, vals) called on a frame of the heap
MakeCallFrame(self, formals, vals) ==
    LET r == make_call_frame(EvalState(heap), self, formals, vals)
    IN  /\ pc = "read"
        /\ heap' = Collect(r.h)
        /\ pc' = "display"
        /\ last' = [op |-> "make_call_frame", expr |-> None, self |-> self,
                    formals |-> formals, vals |-> vals, pre |-> heap, res |-> r,
                    inp |-> NoCall.inp, rd |-> NoCall.rd]
        /\ UNCHANGED port

\* self.define(sym, val) called on a frame of the heap
Define(self, sym, val) ==
    LET post == Frame_define(heap, self, sym, val)
    IN  /\ pc = "read"
        /\ heap' = Collect(post)
        /\ pc' = "display"
        /\ last' = [NoCall EXCEPT !.op = "define", !.self = self, !.formals = sym,
                                  !.vals = val, !.pre = heap, !.res.h = post]
        /\ UNCHANGED port

\* the caller shows the outcome of the call and drops it
Display ==
    /\ pc = "display"
    /\ pc' = "read"
    /\ last' = NoCall
    /\ UNCHANGED <<heap, port>>

Next ==
    \/ \E expr \in Programs : Evaluate(expr)
    \/ \E self \in 1..Len(heap), formals \in ProperFormals \cup ImproperFormals,
          vals \in ArgLists : MakeCallFrame(self, formals, vals)
    \/ \E self \in 1..Len(heap), sym \in DefineSyms, val \in DefineVals :
          Define(self, sym, val)
    \/ Display

Spec == Init /\ [][Next]_vars

\* ------------------------------------------------- the read-eval-print loop
\* the tokens of the inputs, and the inputs: every sequence of 0 .. MaxTokens
\* of them
Tokens == {Sym("("), Sym(")"), Sym("."), Sym("'"), Num(1), Sym("a")}

TokenSeqs == SeqsUpTo(Tokens, 0, MaxTokens)

\* read_eval_print(input_port, prompt, env, print_input) is entered with the
\* global frame and a port at its first token
ReplInit ==
    /\ heap = <<create_global_frame>>
    /\ pc = "read"
    /\ last = NoCall
    /\ port \in {Buffer(toks) : toks \in TokenSeqs}

\* One turn of the loop up to the point where it prints or leaves.  The loop
\* returns when scheme_read hands back EOF ("returned"); "except SchemeError"
\* reports a SchemeError of the read or of the evaluation and lets the loop
\* go on ("display"); any other exception leaves read_eval_print ("crashed").
ReadEval ==
    LET rd == scheme_read(port)
        r == scheme_eval(rd.val, 1, EvalState(heap), 1)
    IN  /\ pc = "read"
        /\ port' = rd.port
        /\ IF Raised(rd) \/ rd.val = EOF
           THEN /\ heap' = heap
                /\ pc' = IF ~Raised(rd) THEN "returned"
                         ELSE IF rd.exc.cls = "SchemeError" THEN "display"
                         ELSE "crashed"
                /\ last' = [NoCall EXCEPT !.op = "scheme_read", !.pre = heap,
                                         !.inp = port, !.rd = rd]
           ELSE /\ heap' = Collect(r.h)
                /\ pc' = IF r.exc.cls \in {"", "SchemeError"} THEN "display"
                         ELSE "crashed"
                /\ last' = [op |-> "scheme_eval", expr |-> rd.val, self |-> 1,
                            formals |-> None, vals |-> None, pre |-> heap, res |-> r,
                            inp |-> port, rd |-> rd]

ReplNext == ReadEval \/ Display

ReplSpec == ReplInit /\ [][ReplNext]_vars

\* ------------------------------------------------- reading the evaluation
\* the log of the last call, and the activations that an activation made
\* directly: the entries one level deeper, up to the next entry that is not
\* inside it, in the order they were entered
Log == last.res.log

ChildSet(i) ==
    {j \in (i + 1)..Len(Log) :
        /\ Log[j].depth = Log[i].depth + 1
        /\ \A k \in (i + 1)..j : Log[k].depth > Log[i].depth}

Children(i) ==
    LET S == ChildSet(i)
    IN  [n \in 1..Cardinality(S) |->
            Log[CHOOSE j \in S : Cardinality({k \in S : k < j}) = n - 1]]

\* the entries of the log that evaluate a form with this keyword
FormEntries(kw) ==
    {i \in 1..Len(Log) : IsPair(Log[i].expr) /\ Log[i].expr.first = Sym(kw)
                         /\ scheme_listp(Log[i].expr)}

\* the leading formals and the rest symbol of (s1 ... sn . rest)
RECURSIVE DottedHead(_)
DottedHead(x) == IF IsPair(x) THEN <<x.first>> \o DottedHead(x.second) ELSE <<>>

RECURSIVE DottedTail(_)
DottedTail(x) == IF IsPair(x) THEN DottedTail(x.second) ELSE x

IsVariadic(formals) == IsPair(formals) /\ scheme_symbolp(DottedTail(formals))

\* the argument count fits the formals
Fits(formals, args) ==
    IF scheme_listp(formals) THEN Pair_len(args) = Pair_len(formals)
    ELSE Pair_len(args) >= Len(DottedHead(formals))

\* C1: a closure call evaluates the body in a new frame whose parent is the
\* environment captured at the closure's creation, and after
\* (define (f x) (lambda () x)) the expression ((f 1)) yields 1
C1_LexicalScope ==
    /\ \A c \in 1..Len(last.res.calls) :
          last.res.h[last.res.calls[c].frame].parent = last.res.calls[c].procedure.env
    /\ (last.op = "scheme_eval" /\ last.expr = CallF1
            /\ Sym("f") \in DOMAIN last.pre[1].inner)
          => (~Raised(last.res) /\ last.res.val = Num(1))

\* C2: for variadic formals (s1 ... sn . rest), n >= 1, and at least n
\* arguments, make_call_frame returns a new child frame that binds each si
\* to the i-th argument and rest to the list of the remaining arguments, and
\* nothing else
C2_VariadicBinding ==
    (last.op = "make_call_frame" /\ IsVariadic(last.formals)
        /\ Pair_len(last.vals) >= Len(DottedHead(last.formals)))
    => LET heads == DottedHead(last.formals)
           rest == DottedTail(last.formals)
           args == Pair_iter(last.vals)
           id == Len(last.pre) + 1
       IN  /\ ~Raised(last.res)
           /\ last.res.val = [t |-> "frame", id |-> id]
           /\ Len(last.res.h) = id
           /\ last.res.h[id].parent = last.self
           /\ DOMAIN last.res.h[id].inner = {heads[i] : i \in 1..Len(heads)} \cup {rest}
           /\ \A i \in 1..Len(heads) : last.res.h[id].inner[heads[i]] = args[i]
           /\ last.res.h[id].inner[rest] = List(SubSeq(args, Len(heads) + 1, Len(args)))

\* C3: make_call_frame raises an arity error and makes no frame when the
\* argument count does not fit the formals, and so no closure is ever called
\* with an argument count that does not fit
C3_ArityError ==
    /\ (last.op = "make_call_frame" /\ ~Fits(last.formals, last.vals))
          => (last.res.exc.cls = "SchemeError" /\ Len(last.res.h) = Len(last.pre))
    /\ \A c \in 1..Len(last.res.calls) :
          Fits(last.res.calls[c].procedure.formals, last.res.calls[c].args)

\* C4: (begin e1 ... en), n >= 1, evaluates e1 .. en once each, in order, in
\* the current environment (stopping only at a sub-expression that raises),
\* and its value is the value of en
C4_BeginSequence ==
    \A i \in FormEntries("begin") :
        LET es == Pair_iter(Log[i].expr.second)
            ch == Children(i)
            n == Len(es)
            k == Len(ch)
        IN  n >= 1 =>
              /\ k <= n
              /\ \A j \in 1..k : ch[j].expr = es[j] /\ ch[j].env = Log[i].env
              /\ \A j \in 1..(k - 1) : ch[j].exc = ""
              /\ k < n => (k >= 1 /\ ch[k].exc # "")
              /\ k = n => (Log[i].exc = ch[n].exc /\ Log[i].val = ch[n].val)

\* the clause of a cond form that is selected when every test before it is
\* the literal #f and its own test is the literal #t or else; 0 when the
\* clauses do not have that shape
RECURSIVE SelectedClause(_, _)
SelectedClause(cs, i) ==
    IF i > Len(cs) THEN 0
    ELSE IF ~IsPair(cs[i]) THEN 0
    ELSE IF cs[i].first \in {Bool(TRUE), Sym("else")} THEN i
    ELSE IF cs[i].first = Bool(FALSE) THEN SelectedClause(cs, i + 1)
    ELSE 0

\* C5: when the selected clause of a cond form has exactly one body
\* expression e, the tests are evaluated, then e is evaluated once in the
\* current environment, nothing else is evaluated, and the value of e is
\* the value of the form
C5_CondSingleBody ==
    \A i \in FormEntries("cond") :
        LET cs == Pair_iter(Log[i].expr.second)
            sel == SelectedClause(cs, 1)
            ch == Children(i)
            tests == IF cs[sel].first = Sym("else") THEN sel - 1 ELSE sel
        IN  (sel > 0 /\ Pair_len(cs[sel].second) = 1) =>
              /\ Len(ch) = tests + 1
              /\ ch[tests + 1].expr = cs[sel].second.first
              /\ ch[tests + 1].env = Log[i].env
              /\ Log[i].val = ch[tests + 1].val
              /\ Log[i].exc = ch[tests + 1].exc

\* C6: a cond form in which every test is false and there is no else clause
\* (a cond without clauses included) raises nothing and yields the
\* unspecified value
C6_CondNoMatch ==
    \A i \in FormEntries("cond") :
        LET cs == Pair_iter(Log[i].expr.second)
        IN  (\A j \in 1..Len(cs) : IsPair(cs[j]) /\ cs[j].first = Bool(FALSE))
              => (Log[i].exc = "" /\ Log[i].val = None)

\* the parts of a let / let* form (bindings bs, body), when it is well formed:
\* a list of bindings that are two-element lists, then at least one body
LetParts(expr) == Pair_iter(expr.second)

WellFormedLet(expr) ==
    /\ Len(LetParts(expr)) >= 2
    /\ scheme_listp(LetParts(expr)[1])
    /\ \A b \in {Pair_iter(LetParts(expr)[1])[j] :
                    j \in 1..Len(Pair_iter(LetParts(expr)[1]))} :
          scheme_listp(b) /\ Pair_len(b) = 2

\* the last binding of each name wins
LastBinding(bs, name) == CHOOSE j \in 1..Len(bs) :
    bs[j].first = name /\ \A m \in (j + 1)..Len(bs) : bs[m].first # name

\* the frame f as it was made: as it stood before the first define form
\* that bound a name in it, as it stands when there was none
FrameWhenMade(f) ==
    LET ks == {k \in 1..Len(last.res.defs) : last.res.defs[k].env = f}
    IN  IF ks = {} THEN last.res.h[f]
        ELSE last.res.defs[CHOOSE k \in ks : \A m \in ks : k <= m].pre[f]

\* C7: in a let form every value expression is evaluated in the environment
\* of the form, so it sees the outer binding of a name or raises an
\* unbound-identifier error, never an earlier binding of the same let; the
\* bindings are then put in one new child frame of that environment, and
\* every body expression is evaluated in that frame
C7_LetScope ==
    \A i \in FormEntries("let") :
        WellFormedLet(Log[i].expr) =>
        LET bs == Pair_iter(LetParts(Log[i].expr)[1])
            body == Tail(LetParts(Log[i].expr))
            ch == Children(i)
            nb == Len(bs)
            k == Len(ch)
            e == Log[i].env
            h == last.res.h
        IN  /\ k <= nb + Len(body)
            /\ \A j \in 1..(k - 1) : ch[j].exc = ""
            /\ k < nb + Len(body) => (k >= 1 /\ ch[k].exc # "")
            /\ \A j \in 1..Min(k, nb) :
                  /\ ch[j].expr = bs[j].second.first
                  /\ ch[j].env = e
                  /\ scheme_symbolp(ch[j].expr) =>
                        IF Frame_find(h, e, ch[j].expr) = 0
                        THEN ch[j].exc = "SchemeError"
                        ELSE /\ ch[j].exc = ""
                             /\ ch[j].val = h[Frame_find(h, e, ch[j].expr)].inner[ch[j].expr]
            /\ k > nb =>
                  LET f == ch[nb + 1].env
                  IN  /\ f # e
                      /\ \A m \in 1..i : Log[m].env # f
                      /\ h[f].parent = e
                      /\ DOMAIN FrameWhenMade(f).inner = {bs[j].first : j \in 1..nb}
                      /\ \A j \in 1..nb :
                            FrameWhenMade(f).inner[bs[j].first]
                                = ch[LastBinding(bs, bs[j].first)].val
                      /\ \A j \in (nb + 1)..k :
                            ch[j].expr = body[j - nb] /\ ch[j].env = f
            /\ k = nb + Len(body) =>
                  (Log[i].val = ch[k].val /\ Log[i].exc = ch[k].exc)

\* a let form whose second value expression names its first binding, which
\* is also bound outside, has run to its end
C7_Witness ==
    \E i \in FormEntries("let") :
        /\ WellFormedLet(Log[i].expr)
        /\ Len(Pair_iter(LetParts(Log[i].expr)[1])) = 2
        /\ Pair_iter(LetParts(Log[i].expr)[1])[2].second.first
              = Pair_iter(LetParts(Log[i].expr)[1])[1].first
        /\ Len(Children(i)) >= 3
        /\ Log[i].exc = ""
        /\ Children(i)[2].val # Children(i)[1].val

\* C8: in a let* form the i-th value expression is evaluated in the new
\* frame of the form, a child of the form's environment, where the bindings
\* 1 .. i-1 are visible: a value expression that names an earlier binding
\* yields the value of the latest such binding, whatever is bound outside
C8_LetStarSequential ==
    \A i \in FormEntries("let*") :
        WellFormedLet(Log[i].expr) =>
        LET bs == Pair_iter(LetParts(Log[i].expr)[1])
            ch == Children(i)
            nb == Len(bs)
            k == Len(ch)
            e == Log[i].env
            h == last.res.h
        IN  /\ nb >= 1 => k >= 1
            /\ \A j \in 1..Min(k, nb) :
                  LET earlier == {m \in 1..(j - 1) : bs[m].first = ch[j].expr}
                  IN  /\ ch[j].expr = bs[j].second.first
                      /\ ch[j].env = ch[1].env
                      /\ ch[j].env # e
                      /\ \A m \in 1..i : Log[m].env # ch[j].env
                      /\ h[ch[j].env].parent = e
                      /\ earlier # {} =>
                            /\ ch[j].exc = ""
                            /\ ch[j].val = ch[CHOOSE m \in earlier :
                                                 \A o \in earlier : o <= m].val
            /\ (k < nb => ch[k].exc # "")

\* a let* form whose second value expression names its first binding, which
\* is not bound outside, has evaluated both
C8_Witness ==
    \E i \in FormEntries("let*") :
        /\ WellFormedLet(Log[i].expr)
        /\ Len(Pair_iter(LetParts(Log[i].expr)[1])) = 2
        /\ Pair_iter(LetParts(Log[i].expr)[1])[2].second.first
              = Pair_iter(LetParts(Log[i].expr)[1])[1].first
        /\ Frame_find(last.pre, 1, Pair_iter(LetParts(Log[i].expr)[1])[1].first) = 0
        /\ Log[i].env = 1
        /\ Len(Children(i)) >= 2
        /\ Children(i)[2].exc = ""
        /\ Children(i)[2].val = Children(i)[1].val

\* C9: (if test consequent alternate) evaluates test once and then exactly
\* one branch, once: the consequent after #t, the alternate after #f; its
\* value is the value of that branch; an if form that does not have three
\* sub-parts raises an error before anything is evaluated
C9_IfBranch ==
    \A i \in FormEntries("if") :
        LET parts == Pair_iter(Log[i].expr.second)
            ch == Children(i)
        IN  IF Len(parts) # 3 THEN ch = <<>> /\ Log[i].exc # ""
            ELSE /\ Len(ch) >= 1
                 /\ ch[1].expr = parts[1]
                 /\ ch[1].env = Log[i].env
                 /\ ch[1].exc # "" => Len(ch) = 1
                 /\ ch[1].exc = "" =>
                       /\ Len(ch) = 2
                       /\ ch[2].expr \in {parts[2], parts[3]}
                       /\ ch[1].val = Bool(TRUE) => ch[2].expr = parts[2]
                       /\ ~scheme_true(ch[1].val) => ch[2].expr = parts[3]
                       /\ ch[2].env = Log[i].env
                       /\ Log[i].val = ch[2].val
                       /\ Log[i].exc = ch[2].exc

\* the operand evaluations of an and / or form: its direct activations, less
\* the last one when the form returned, which evaluates the boolean result
OperandEvals(i) ==
    LET ch == Children(i)
    IN  IF Log[i].exc = "" /\ Len(ch) >= 1 THEN SubSeq(ch, 1, Len(ch) - 1) ELSE ch

\* C10: and / or evaluate their operands left to right, each at most once,
\* and stop at the deciding operand: for and the first whose value is #f
\* (the result is false), for or the first whose value is not #f (the result
\* is true); when no operand decides, and yields true and or yields false
C10_ShortCircuit ==
    \A i \in FormEntries("and") \cup FormEntries("or") :
        LET isAnd == Log[i].expr.first = Sym("and")
            ops == Pair_iter(Log[i].expr.second)
            ev == OperandEvals(i)
            k == Len(ev)
            decides(c) == c.exc = "" /\ (IF isAnd THEN ~scheme_true(c.val)
                                                   ELSE scheme_true(c.val))
        IN  /\ k <= Len(ops)
            /\ \A j \in 1..k : ev[j].expr = ops[j] /\ ev[j].env = Log[i].env
            /\ \A j \in 1..(k - 1) : ev[j].exc = "" /\ ~decides(ev[j])
            /\ k < Len(ops) => (k >= 1 /\ (decides(ev[k]) \/ ev[k].exc # ""))
            /\ (k >= 1 /\ decides(ev[k])) =>
                  (Log[i].exc = "" /\ Log[i].val = Bool(~isAnd))
            /\ (k = Len(ops) /\ \A j \in 1..k : ev[j].exc = "" /\ ~decides(ev[j])) =>
                  (Log[i].exc = "" /\ Log[i].val = Bool(isAnd))

\* --------------------------------------------------- reading the reader
\* The grammar of one expression, read from toks at index i: an atom, a
\* quote followed by an expression, or a list "(" e1 .. en ")" that may end
\* in ". e )" when n >= 1.  k is "ok" with i the index after the expression,
\* "eof" when the tokens end inside it, "dot" for a malformed dotted list and
\* "token" for any other token out of place.
RECURSIVE SyntaxExpr(_, _)
RECURSIVE SyntaxTail(_, _, _)
SyntaxExpr(toks, i) ==
    IF i > Len(toks) THEN [k |-> "eof", i |-> i]
    ELSE IF toks[i] = Sym("'") THEN SyntaxExpr(toks, i + 1)
    ELSE IF toks[i] = Sym("(") THEN SyntaxTail(toks, i + 1, 0)
    ELSE IF toks[i] \in DELIMITERS THEN [k |-> "token", i |-> i]
    ELSE [k |-> "ok", i |-> i + 1]

SyntaxTail(toks, i, n) ==
    IF i > Len(toks) THEN [k |-> "eof", i |-> i]
    ELSE IF toks[i] = Sym(")") THEN [k |-> "ok", i |-> i + 1]
    ELSE IF toks[i] = Sym(".")
    THEN IF n = 0 THEN [k |-> "dot", i |-> i]
         ELSE LET e == SyntaxExpr(toks, i + 1)
              IN  IF e.k = "token" THEN [k |-> "dot", i |-> e.i]
                  ELSE IF e.k # "ok" THEN e
                  ELSE IF e.i > Len(toks) THEN [k |-> "eof", i |-> e.i]
                  ELSE IF toks[e.i] = Sym(")") THEN [k |-> "ok", i |-> e.i + 1]
                  ELSE [k |-> "dot", i |-> e.i]
    ELSE LET e == SyntaxExpr(toks, i)
         IN  IF e.k # "ok" THEN e ELSE SyntaxTail(toks, e.i, n + 1)

\* what the grammar says of the input of the last read
Syntax == SyntaxExpr(last.inp.toks, last.inp.index)

\* a read has been made and its outcome is in last.rd
HasRead == last.op = "scheme_read" \/ (last.op = "scheme_eval" /\ last.inp.toks # <<>>)

\* C11: scheme_read raises a syntax error (a SchemeError) and returns no
\* expression whenever the next expression of the input is a malformed dotted
\* list: the dot is not followed by exactly one expression and then the
\* close-parenthesis, or the dot comes before any element of the list
C11_DottedList ==
    (HasRead /\ Syntax.k = "dot") => last.rd.exc.cls = "SchemeError"

\* C13: no failure raised while reading or evaluating a top-level form ends
\* the read-eval-print loop: the loop never leaves by an exception, and it
\* returns only when the input has no token left
C13_LoopRecovers ==
    /\ pc # "crashed"
    /\ pc = "returned" => port.index > Len(port.toks)

\* whether the end-of-file marker occurs inside a pair of a value
RECURSIVE HoldsEOF(_)
HoldsEOF(x) == IsPair(x) /\ (\/ x.first = EOF \/ x.second = EOF
                             \/ HoldsEOF(x.first) \/ HoldsEOF(x.second))

\* C18: scheme_read returns the end-of-file marker only as its whole result
\* and only when no token remains at the start of the call; when the input
\* ends in the middle of an expression the call raises a syntax error; the
\* marker never occurs nested inside a returned expression
C18_EndOfFile ==
    HasRead =>
        /\ (~Raised(last.rd) /\ last.rd.val = EOF) => Buffer_current(last.inp) = None
        /\ (Buffer_current(last.inp) # None /\ Syntax.k = "eof") =>
              last.rd.exc.cls = "SchemeError"
        /\ ~Raised(last.rd) => ~HoldsEOF(last.rd.val)

\* the formals that a lambda form or the procedure form of define names,
\* None for a form that names none
FormalsOf(expr) ==
    IF Pair_len(expr) < 3 THEN None
    ELSE IF expr.first = Sym("lambda") THEN expr.second.first
    ELSE IF expr.first = Sym("define") /\ IsPair(expr.second.first)
    THEN expr.second.first.second
    ELSE None

\* a formals list that holds the same symbol at two positions, or a number
\* or a pair as a formal
InvalidFormals(formals) ==
    LET ps == DottedHead(formals) \o (IF DottedTail(formals) = NULL THEN <<>>
                                      ELSE <<DottedTail(formals)>>)
    IN  \/ \E j, k \in 1..Len(ps) : j < k /\ scheme_symbolp(ps[j]) /\ ps[j] = ps[k]
        \/ \E j \in 1..Len(ps) : scheme_numberp(ps[j]) \/ IsPair(ps[j])

\* C12: a lambda form, and the procedure form of define, whose formals hold
\* the same symbol twice or a number or a pair raises a SchemeError when it
\* is evaluated, so that no LambdaProcedure is created
C12_FormalsChecked ==
    \A i \in FormEntries("lambda") \cup FormEntries("define") :
        (FormalsOf(Log[i].expr) # None /\ InvalidFormals(FormalsOf(Log[i].expr)))
            => Log[i].exc = "SchemeError"

\* the closure that DefLoop binds to loop in the global frame
LoopProcedure == LambdaProcedure(DefLoop.second.first.second, DefLoop.second.second.first, 1)

\* the last call evaluated (loop (quote (1 .. 1))) with n elements, with
\* loop bound by DefLoop
LoopRan(n) ==
    /\ last.op = "scheme_eval"
    /\ last.expr = LoopCall(n)
    /\ Frame_find(last.pre, 1, Sym("loop")) = 1
    /\ last.pre[1].inner[Sym("loop")] = LoopProcedure

\* C14: an if form leaves its selected branch to the activation that
\* evaluates the form, so the form nests one activation only, that of its
\* test; and the deepest nesting of scheme_eval activations that a call of
\* the tail-recursive loop reaches is the same for every number of
\* iterations: that of one iteration
C14_TailCalls ==
    /\ \A i \in FormEntries("if") :
           (Len(Pair_iter(Log[i].expr.second)) = 3 /\ Len(Children(i)) >= 1
               /\ Children(i)[1].exc = "") => Len(Children(i)) = 1
    /\ \A n \in 1..MaxIterations :
           LoopRan(n) =>
               last.res.maxd <= scheme_eval(LoopCall(1), 1, EvalState(last.pre), 1).maxd

\* the frames above f, nearest first
RECURSIVE Ancestors(_, _)
Ancestors(h, f) ==
    IF h[f].parent = 0 THEN <<>> ELSE <<h[f].parent>> \o Ancestors(h, h[f].parent)

\* what a lookup of sym that starts at frame f returns: None when unbound
Lookup(h, f, sym) ==
    IF Frame_find(h, f, sym) = 0 THEN None ELSE h[Frame_find(h, f, sym)].inner[sym]

\* the binding of sym to val in frame F took the heap from pre to post
BoundIn(pre, post, F, sym, val) ==
    /\ Len(post) = Len(pre)
    /\ Frame_find(post, F, sym) = F
    /\ Lookup(post, F, sym) = val
    /\ post[F].parent = pre[F].parent
    /\ \A f \in 1..Len(pre) : f # F => post[f] = pre[f]
    /\ \A j \in 1..Len(Ancestors(pre, F)) :
          Lookup(post, Ancestors(pre, F)[j], sym) = Lookup(pre, Ancestors(pre, F)[j], sym)

\* C15: a define form evaluated in frame F, and Frame.define called on F,
\* binds the symbol in F only: a lookup that starts at F returns the new
\* value, every other frame is as it was, and a lookup of the symbol that
\* starts at an ancestor of F returns what it returned before
C15_DefineLocal ==
    /\ \A k \in 1..Len(last.res.defs) :
           BoundIn(last.res.defs[k].pre, last.res.defs[k].post, last.res.defs[k].env,
                   last.res.defs[k].sym, last.res.defs[k].val)
    /\ last.op = "define" =>
           BoundIn(last.pre, last.res.h, last.self, last.formals, last.vals)

\* a define form was evaluated in a frame that has an ancestor where the
\* symbol is bound to another value, and Frame.define was called on a frame
\* that has a parent
C15_Witness ==
    \/ \E k \in 1..Len(last.res.defs) :
           LET e == last.res.defs[k]
           IN  /\ e.pre[e.env].parent # 0
               /\ Lookup(e.pre, e.pre[e.env].parent, e.sym) \notin {None, e.val}
               /\ Lookup(e.post, e.env, e.sym) = e.val
    \/ /\ last.op = "define"
       /\ last.pre[last.self].parent # 0
       /\ Lookup(last.res.h, last.self, last.formals) = last.vals

\* the expression that evaluates the body of a cond clause: the body
\* expression, or a begin form around several
ClauseBody(clause) ==
    IF Pair_len(clause.second) = 1 THEN clause.second.first
    ELSE Pair(Sym("begin"), clause.second)

\* C16: if, cond, and, or treat a test value as false exactly when it is #f:
\* an if form whose test has another value (0 and the empty list included)
\* evaluates its consequent, with #f its alternate; the first clause of a
\* cond form is selected exactly when its test is not #f; and yields true
\* exactly when none of the operands it evaluated is #f, or yields true
\* exactly when one of them is not #f
C16_UniformTruth ==
    /\ \A i \in FormEntries("if") :
           LET parts == Pair_iter(Log[i].expr.second)
               ch == Children(i)
           IN  (Len(parts) = 3 /\ Len(ch) >= 1 /\ ch[1].exc = "") =>
                   /\ Len(ch) >= 2
                   /\ ch[2].expr = IF scheme_true(ch[1].val) THEN parts[2] ELSE parts[3]
    /\ \A i \in FormEntries("cond") :
           LET cs == Pair_iter(Log[i].expr.second)
               ch == Children(i)
           IN  (/\ Len(cs) >= 1
                /\ scheme_listp(cs[1]) /\ Pair_len(cs[1]) >= 2
                /\ cs[1].first # Sym("else")
                /\ Len(ch) >= 1 /\ ch[1].exc = "") =>
                   (scheme_true(ch[1].val)
                       <=> (Len(ch) >= 2 /\ ch[2].expr = ClauseBody(cs[1])))
    /\ \A i \in FormEntries("and") \cup FormEntries("or") :
           LET ev == OperandEvals(i)
           IN  Log[i].exc = "" =>
                   Log[i].val = IF Log[i].expr.first = Sym("and")
                                THEN Bool(\A j \in 1..Len(ev) : scheme_true(ev[j].val))
                                ELSE Bool(\E j \in 1..Len(ev) : scheme_true(ev[j].val))

\* the names that the binding list of a let / let* form binds
BoundNames(expr) ==
    {Pair_iter(LetParts(expr)[1])[j].first : j \in 1..Len(Pair_iter(LetParts(expr)[1]))}

\* C17: once the bindings of a let* form are made, every body expression,
\* the last one included, is evaluated in the environment of the form and not
\* in the frame of the bindings: a body expression that names a binding of
\* the form yields what the name is bound to outside, or an unbound-identifier
\* error; and the binding list changes no frame that was there before it
C17_LetStarBody ==
    /\ \A i \in FormEntries("let*") :
           WellFormedLet(Log[i].expr) =>
           LET nb == Len(Pair_iter(LetParts(Log[i].expr)[1]))
               body == Tail(LetParts(Log[i].expr))
               ch == Children(i)
               e == Log[i].env
           IN  (Len(ch) >= nb /\ \A j \in 1..nb : ch[j].exc = "") =>
                   /\ Len(ch) > nb
                   /\ Len(ch) <= nb + Len(body)
                   /\ \A j \in (nb + 1)..Len(ch) :
                         /\ ch[j].expr = body[j - nb]
                         /\ ch[j].env = e
                         /\ (ch[j].expr \in BoundNames(Log[i].expr)
                                 /\ last.res.defs = <<>>) =>
                               IF Lookup(last.res.h, e, ch[j].expr) = None
                               THEN ch[j].exc = "SchemeError"
                               ELSE /\ ch[j].exc = ""
                                    /\ ch[j].val = Lookup(last.res.h, e, ch[j].expr)
    /\ \A k \in 1..Len(last.res.stars) :
           LET b == last.res.stars[k]
           IN  /\ b.frame = Len(b.pre) + 1
               /\ b.post[b.frame].parent = b.env
               /\ \A g \in 1..Len(b.pre) : b.post[g] = b.pre[g]

\* a let* form has made a binding of a name that is not bound outside, and
\* its body, which names it, was evaluated in the environment of the form
\* and raised the unbound-identifier error
C17_Witness ==
    \E i \in FormEntries("let*") :
        /\ WellFormedLet(Log[i].expr)
        /\ Len(Children(i)) = Len(Pair_iter(LetParts(Log[i].expr)[1])) + 1
        /\ \A j \in 1..(Len(Children(i)) - 1) : Children(i)[j].exc = ""
        /\ Children(i)[Len(Children(i))].expr \in BoundNames(Log[i].expr)
        /\ Children(i)[Len(Children(i))].env = Log[i].env
        /\ Children(i)[Len(Children(i))].exc = "SchemeError"
        /\ \E k \in 1..Len(last.res.stars) :
              Children(i)[Len(Children(i))].expr
                  \in DOMAIN last.res.stars[k].post[last.res.stars[k].frame].inner

====
